---- MODULE Spec2Model ----
(***************************************************************************)
(* Model of ch08/lib/environ.py: the State class (reset, encode, step) of  *)
(* the stock-trading environment.                                          *)
(*                                                                         *)
(* Numbers.  The code computes in floating point; the model computes the   *)
(* same expressions exactly, in fixed point:                               *)
(*   - a relative price field (high, low, close) and an observation entry  *)
(*     is an integer count of 1/Denom;                                     *)
(*   - an absolute price (open[i], _close(i), open_price) is kept as       *)
(*     price * Denom, except the open field itself, which is an integer;   *)
(*   - comission is comission_perc / 100.0, kept as the integer numerator  *)
(*     over PercScale;                                                     *)
(*   - a reward is kept as reward * Denom * PercScale.                     *)
(* Floating-point rounding of sums and products is not modelled.           *)
(***************************************************************************)
EXTENDS Integers, Sequences, FiniteSets, TLC

\* ---- bounds of the model ----
MaxBars == 2
MaxLen == 4
MaxOffset == 4
Denom == 4

\* comission_perc / 100.0
PercScale == 100

VARIABLES
    bars_count, comission, reset_on_close, reward_on_close,  \* State.__init__
    bound,            \* TRUE once reset has created the episode attributes
    prices, offset, have_position, open_price,               \* episode state
    call,             \* the last call made on the object
    err,              \* the exception it raised, or "none"
    reward, done,     \* the pair returned by the last step
    obs,              \* the vector returned by the last encode
    pre,              \* episode state at the moment of the last call (reset
                      \* overwrites the offset, so its snapshot leaves it out)
    doneSeen,         \* a step has returned done=True since the last reset
    again,            \* the last call is an encode directly after an encode
    start,            \* the offset given to the last reset that returned
    nsteps,           \* the steps that have returned since that reset
    overrun,          \* step has been called after it had returned done=True
    firstReward,      \* the reward of the first step of the episode, kept
                      \* until the second step has returned
    instrument        \* StocksEnv._instrument, "unset" before _reset

cfg == <<bars_count, comission, reset_on_close, reward_on_close>>
episode == <<bound, prices, offset, have_position, open_price>>
vars == <<bars_count, comission, reset_on_close, reward_on_close, bound,
          prices, offset, have_position, open_price, call, err, reward,
          done, obs, pre, doneSeen, again, start, nsteps, overrun,
          firstReward, instrument>>
trail == <<start, nsteps, overrun, firstReward>>

\* ---- data.Prices: four equal-length arrays ----
Bar(o, h, l, c) == [open |-> o, high |-> h, low |-> l, close |-> c]

\* the bars the price series are made of: one without price movement, one
\* rising, one falling
BarList == <<Bar(4, 0, 0, 0), Bar(5, 2, -1, 1), Bar(3, 1, -2, -1)>>

\* series kind 0 repeats the first bar; kinds 1 and 2 cycle through the bars
\* in opposite orders
Series(kind, n) == [i \in 1..n |-> BarList[((kind * i) % 3) + 1]]

Prices(bars) ==
    [open  |-> [i \in 1..Len(bars) |-> bars[i].open],
     high  |-> [i \in 1..Len(bars) |-> bars[i].high],
     low   |-> [i \in 1..Len(bars) |-> bars[i].low],
     close |-> [i \in 1..Len(bars) |-> bars[i].close]]

PricesSet == {Prices(Series(kind, n)) : kind \in 0..2, n \in 1..MaxLen}

NoPrices == Prices(<<>>)

\* numpy indexing arr[i]: negative indices count from the end, anything
\* outside -len .. len-1 raises IndexError
InRange(arr, i) == i >= 0 - Len(arr) /\ i < Len(arr)
At(arr, i) == arr[(IF i < 0 THEN i + Len(arr) ELSE i) + 1]

\* ---- class Actions ----
Actions == {"Skip", "Buy", "Close"}
ActionInputs == Actions \cup {"NotAnAction"}

CommissionPercSet == {0, 1}

NoCall == [op |-> "init", action |-> "none", prices |-> NoPrices, offset |-> 0]
Snapshot == [offset |-> offset, have_position |-> have_position,
             open_price |-> open_price, doneSeen |-> doneSeen]

\* ---- State.__init__ ----
Init ==
    /\ bars_count \in 1..MaxBars
    /\ comission \in CommissionPercSet
    /\ reset_on_close \in BOOLEAN
    /\ reward_on_close \in BOOLEAN
    /\ bound = FALSE
    /\ prices = NoPrices
    /\ offset = 0
    /\ have_position = FALSE
    /\ open_price = 0
    /\ call = NoCall
    /\ err = "none"
    /\ reward = 0
    /\ done = FALSE
    /\ obs = <<>>
    /\ pre = [offset |-> 0, have_position |-> FALSE, open_price |-> 0,
              doneSeen |-> FALSE]
    /\ doneSeen = FALSE
    /\ again = FALSE
    /\ start = 0
    /\ nsteps = 0
    /\ overrun = FALSE
    /\ firstReward = 0
    /\ instrument = "unset"

\* ---- State.reset ----
\* the fields after reset(p, o), and the exception it raises
reset_KeepsPosition(p, o) ==
    IF o >= bars_count - 1
    THEN [err |-> "none", have_position |-> have_position,
          open_price |-> open_price, prices |-> p, offset |-> o, bound |-> TRUE]
    ELSE [err |-> "AssertionError", have_position |-> have_position,
          open_price |-> open_price, prices |-> prices, offset |-> offset,
          bound |-> bound]

reset(p, o) ==
    IF o >= bars_count - 1
    THEN [err |-> "none", have_position |-> FALSE, open_price |-> 0,
          prices |-> p, offset |-> o, bound |-> TRUE]
    ELSE [err |-> "AssertionError", have_position |-> have_position,
          open_price |-> open_price, prices |-> prices, offset |-> offset,
          bound |-> bound]

Reset ==
    \E p \in PricesSet : \E o \in 0..Len(p.close) :
        LET r == reset(p, o)
        IN  /\ call' = [op |-> "reset", action |-> "none", prices |-> p, offset |-> o]
            /\ pre' = [Snapshot EXCEPT !.offset = 0]
            /\ reward' = 0 /\ done' = FALSE /\ obs' = <<>> /\ again' = FALSE
            /\ have_position' = r.have_position
            /\ open_price' = r.open_price
            /\ prices' = r.prices
            /\ offset' = r.offset
            /\ bound' = r.bound
            /\ err' = r.err
            /\ doneSeen' = (doneSeen /\ r.err # "none")
            /\ IF r.err = "none"
               THEN /\ start' = o
                    /\ nsteps' = 0
                    /\ overrun' = FALSE
                    /\ firstReward' = 0
               ELSE UNCHANGED trail
            /\ UNCHANGED <<cfg, instrument>>

\* ---- State.__len__ ----
StateLen == 3 * bars_count + 1 + 1

\* ---- State._close: open * (1.0 + rel_close), times Denom ----
_close(o) == At(prices.open, o) * (Denom + At(prices.close, o))

\* the value 1.0 (float(True)) as an observation entry
One == Denom

\* (self._close(offset) - open_price) / open_price, stored as an entry of the
\* float32 vector; a zero divisor gives numpy's inf/nan, never an exception
RelProfit(o, op) ==
    IF op = 0 THEN "nan" ELSE ((_close(o) - op) * Denom) \div op

\* ---- State._encode, lines 55-62: the loop over range(-bars_count+1, 1) ----
RECURSIVE EncodeBars_NewestFirst(_, _, _, _)
EncodeBars_NewestFirst(res, shift, bar_idx, o) ==
    IF bar_idx >= 1 THEN [res |-> res, shift |-> shift, err |-> "none"]
    ELSE LET i == (o - (bars_count - 1)) - bar_idx
         IN  IF ~InRange(prices.high, i)
             THEN [res |-> res, shift |-> shift, err |-> "IndexError"]
             ELSE EncodeBars_NewestFirst(
                      [res EXCEPT ![shift + 1] = At(prices.high, i),
                                  ![shift + 2] = At(prices.low, i),
                                  ![shift + 3] = At(prices.close, i)],
                      shift + 3, bar_idx + 1, o)

RECURSIVE EncodeBars_Lookahead(_, _, _, _)
EncodeBars_Lookahead(res, shift, bar_idx, o) ==
    IF bar_idx >= 1 THEN [res |-> res, shift |-> shift, err |-> "none"]
    ELSE IF ~InRange(prices.high, o + bar_idx + 1)
         THEN [res |-> res, shift |-> shift, err |-> "IndexError"]
         ELSE EncodeBars_Lookahead(
                  [res EXCEPT ![shift + 1] = At(prices.high, o + bar_idx + 1),
                              ![shift + 2] = At(prices.low, o + bar_idx + 1),
                              ![shift + 3] = At(prices.close, o + bar_idx + 1)],
                  shift + 3, bar_idx + 1, o)

RECURSIVE EncodeBars(_, _, _, _)
EncodeBars(res, shift, bar_idx, o) ==
    IF bar_idx >= 1 THEN [res |-> res, shift |-> shift, err |-> "none"]
    ELSE IF ~InRange(prices.high, o + bar_idx)
         THEN [res |-> res, shift |-> shift, err |-> "IndexError"]
         ELSE EncodeBars([res EXCEPT ![shift + 1] = At(prices.high, o + bar_idx),
                                     ![shift + 2] = At(prices.low, o + bar_idx),
                                     ![shift + 3] = At(prices.close, o + bar_idx)],
                         shift + 3, bar_idx + 1, o)

\* ---- State._encode ----
_encode_ProfitWhenPriced(o, hp, op) ==
    LET res0 == [i \in 1..StateLen |-> "uninit"]
        w == EncodeBars(res0, 0, (0 - bars_count) + 1, o)
        res1 == [w.res EXCEPT ![w.shift + 1] = IF hp THEN One ELSE 0]
        res2 == [res1 EXCEPT ![w.shift + 2] = IF op = 0 THEN 0 ELSE RelProfit(o, op)]
    IN  IF w.err # "none" THEN [res |-> <<>>, err |-> w.err]
        ELSE [res |-> res2, err |-> "none"]

_encode(o, hp, op) ==
    LET res0 == [i \in 1..StateLen |-> "uninit"]
        w == EncodeBars(res0, 0, (0 - bars_count) + 1, o)
        res1 == [w.res EXCEPT ![w.shift + 1] = IF hp THEN One ELSE 0]
        res2 == [res1 EXCEPT ![w.shift + 2] = IF ~hp THEN 0 ELSE RelProfit(o, op)]
    IN  IF w.err # "none" THEN [res |-> <<>>, err |-> w.err]
        ELSE [res |-> res2, err |-> "none"]

\* ---- State.encode ----
Encode_ClearsPosition ==
    /\ call' = [op |-> "encode", action |-> "none", prices |-> NoPrices, offset |-> 0]
    /\ pre' = Snapshot
    /\ again' = (call.op = "encode" /\ err = "none")
    /\ reward' = 0 /\ done' = FALSE
    /\ IF ~bound
       THEN err' = "AttributeError" /\ obs' = <<>>
       ELSE LET r == _encode(offset, have_position, open_price)
            IN  err' = r.err /\ obs' = r.res
    /\ have_position' = FALSE
    /\ UNCHANGED <<cfg, bound, prices, offset, open_price, doneSeen, trail,
                   instrument>>

Encode ==
    /\ call' = [op |-> "encode", action |-> "none", prices |-> NoPrices, offset |-> 0]
    /\ pre' = Snapshot
    /\ again' = (call.op = "encode" /\ err = "none")
    /\ reward' = 0 /\ done' = FALSE
    /\ IF ~bound
       THEN err' = "AttributeError" /\ obs' = <<>>
       ELSE LET r == _encode(offset, have_position, open_price)
            IN  err' = r.err /\ obs' = r.res
    /\ UNCHANGED <<cfg, episode, doneSeen, trail, instrument>>

\* ---- State.step ----
\* A frame is the object's fields and the locals of step while it runs.
Frame == [offset |-> offset, have_position |-> have_position,
          open_price |-> open_price, reward |-> 0, done |-> FALSE,
          err |-> "none"]

\* lines 92-96: open a position at the current bar
StepOpen_FeeOnOpen(f, a) ==
    IF a = "Buy" /\ ~f.have_position
    THEN IF ~InRange(prices.open, f.offset)
         THEN [f EXCEPT !.have_position = TRUE, !.err = "IndexError"]
         ELSE [f EXCEPT !.have_position = TRUE,
                        !.open_price = _close(f.offset),
                        !.reward = @ - At(prices.open, f.offset) * Denom * comission]
    ELSE f

StepOpen_Reopens(f, a) ==
    IF a = "Buy"
    THEN IF ~InRange(prices.open, f.offset)
         THEN [f EXCEPT !.have_position = TRUE, !.err = "IndexError"]
         ELSE [f EXCEPT !.have_position = TRUE,
                        !.open_price = _close(f.offset),
                        !.reward = @ - _close(f.offset) * comission]
    ELSE f

StepOpen(f, a) ==
    IF a = "Buy" /\ ~f.have_position
    THEN IF ~InRange(prices.open, f.offset)
         THEN [f EXCEPT !.have_position = TRUE, !.err = "IndexError"]
         ELSE [f EXCEPT !.have_position = TRUE,
                        !.open_price = _close(f.offset),
                        !.reward = @ - _close(f.offset) * comission]
    ELSE f

\* lines 98-99: advance, and detect the end of the prices
StepAdvance_PastEnd(f) ==
    [f EXCEPT !.offset = @ + 1,
              !.done = @ \/ (f.offset + 1 >= Len(prices.close))]

StepAdvance_Clamped(f) ==
    [f EXCEPT !.offset = IF @ + 1 > Len(prices.close) - 1 THEN @ ELSE @ + 1,
              !.done = @ \/ (f.offset + 1 >= Len(prices.close) - 1)]

StepAdvance(f) ==
    [f EXCEPT !.offset = @ + 1,
              !.done = @ \/ (f.offset + 1 >= Len(prices.close) - 1)]

\* lines 101-103: delta position profit of the new bar
StepAccrue_OnlyContinuous(f) ==
    IF f.have_position
    THEN IF ~InRange(prices.open, f.offset)
         THEN [f EXCEPT !.err = "IndexError"]
         ELSE IF reward_on_close THEN f
         ELSE [f EXCEPT !.reward = @ + At(prices.open, f.offset)
                                       * At(prices.close, f.offset) * PercScale]
    ELSE f

StepAccrue(f) ==
    IF f.have_position
    THEN IF ~InRange(prices.open, f.offset)
         THEN [f EXCEPT !.err = "IndexError"]
         ELSE [f EXCEPT !.reward = @ + At(prices.open, f.offset)
                                       * At(prices.close, f.offset) * PercScale]
    ELSE f

\* lines 105-111: close the position
StepClose_AlwaysPnl(f, a) ==
    IF a = "Close" /\ f.have_position
    THEN [f EXCEPT !.reward = (@ - _close(f.offset) * comission)
                              + (_close(f.offset) - f.open_price) * PercScale,
                   !.done = @ \/ reset_on_close,
                   !.have_position = FALSE,
                   !.open_price = 0]
    ELSE f

StepClose_OverwritesDone(f, a) ==
    IF a = "Close" /\ f.have_position
    THEN [f EXCEPT !.reward = (@ - _close(f.offset) * comission)
                              + (IF reward_on_close
                                 THEN (_close(f.offset) - f.open_price) * PercScale
                                 ELSE 0),
                   !.done = reset_on_close,
                   !.have_position = FALSE,
                   !.open_price = 0]
    ELSE f

StepClose_NoFee(f, a) ==
    IF a = "Close" /\ f.have_position
    THEN [f EXCEPT !.reward = @ + (IF reward_on_close
                                   THEN (_close(f.offset) - f.open_price) * PercScale
                                   ELSE 0),
                   !.done = @ \/ reset_on_close,
                   !.have_position = FALSE,
                   !.open_price = 0]
    ELSE f

StepClose(f, a) ==
    IF a = "Close" /\ f.have_position
    THEN [f EXCEPT !.reward = (@ - _close(f.offset) * comission)
                              + (IF reward_on_close
                                 THEN (_close(f.offset) - f.open_price) * PercScale
                                 ELSE 0),
                   !.done = @ \/ reset_on_close,
                   !.have_position = FALSE,
                   !.open_price = 0]
    ELSE f

\* lines 89-113: the whole of step on frame f0
StepOutcome_FailFast(f0, a) ==
    IF a \notin Actions \/ doneSeen THEN [f0 EXCEPT !.err = "AssertionError"]
    ELSE LET f1 == StepOpen(f0, a)
             f2 == IF f1.err = "none" THEN StepAdvance(f1) ELSE f1
             f3 == IF f2.err = "none" THEN StepAccrue(f2) ELSE f2
         IN  IF f3.err = "none" THEN StepClose(f3, a) ELSE f3

StepOutcome_AdvanceFirst(f0, a) ==
    IF a \notin Actions
    THEN [f0 EXCEPT !.err = "AssertionError", !.offset = @ + 1]
    ELSE LET f1 == StepOpen(f0, a)
             f2 == IF f1.err = "none" THEN StepAdvance(f1) ELSE f1
             f3 == IF f2.err = "none" THEN StepAccrue(f2) ELSE f2
         IN  IF f3.err = "none" THEN StepClose(f3, a) ELSE f3

StepOutcome(f0, a) ==
    IF a \notin Actions THEN [f0 EXCEPT !.err = "AssertionError"]
    ELSE LET f1 == StepOpen(f0, a)
             f2 == IF f1.err = "none" THEN StepAdvance(f1) ELSE f1
             f3 == IF f2.err = "none" THEN StepAccrue(f2) ELSE f2
         IN  IF f3.err = "none" THEN StepClose(f3, a) ELSE f3

\* the reward of the first step of the episode, while it is remembered
Remembered(n, out) ==
    IF out.err # "none" THEN firstReward
    ELSE IF n = 0 THEN out.reward
    ELSE IF n = 1 THEN firstReward
    ELSE 0

Step ==
    \E a \in ActionInputs :
        /\ offset < MaxOffset
        /\ call' = [op |-> "step", action |-> a, prices |-> NoPrices, offset |-> 0]
        /\ pre' = Snapshot
        /\ obs' = <<>> /\ again' = FALSE
        /\ IF a \in Actions /\ ~bound
           THEN /\ err' = "AttributeError"
                /\ reward' = 0 /\ done' = FALSE
                /\ UNCHANGED <<episode, doneSeen, trail>>
           ELSE LET out == StepOutcome(Frame, a)
                    ok == out.err = "none"
                IN  /\ offset' = out.offset
                    /\ have_position' = out.have_position
                    /\ open_price' = out.open_price
                    /\ err' = out.err
                    /\ reward' = IF ok THEN out.reward ELSE 0
                    /\ done' = (ok /\ out.done)
                    /\ doneSeen' = (doneSeen \/ (ok /\ out.done))
                    /\ nsteps' = IF ok THEN nsteps + 1 ELSE nsteps
                    /\ overrun' = (overrun \/ doneSeen)
                    /\ firstReward' = Remembered(nsteps, out)
                    /\ UNCHANGED <<bound, prices, start>>
        /\ UNCHANGED <<cfg, instrument>>

Next == Reset \/ Encode \/ Step

Spec == Init /\ [][Next]_vars

\* ============================ StocksEnv ================================
MaxExtra == 2

\* the keys of the prices dict given to StocksEnv.__init__: series of the
\* three kinds, with 10*bars_count bars and up to MaxExtra more
Instruments == {<<kind, e>> : kind \in 0..2, e \in 0..MaxExtra}
EnvPrices(inst) == Prices(Series(inst[1], bars_count * 10 + inst[2]))

\* ---- StocksEnv.__init__: State(bars_count, comission, reset_on_close) ----
InitEnv == Init /\ reward_on_close = TRUE

\* ---- Actions(action_idx) ----
ActionIdxInputs == (0 - 1)..3
ActionOf(idx) ==
    CASE idx = 0 -> "Skip"
      [] idx = 1 -> "Buy"
      [] idx = 2 -> "Close"
      [] OTHER -> "NotAnAction"

\* ---- StocksEnv._reset ----
\* line 133: np_random.choice(n) draws from 0..n-1 (and raises ValueError
\* for n <= 0, when there is nothing to draw)
ResetOffsets_AnyBar(p) ==
    {c : c \in 0..(Len(p.high) - 1)}

ResetOffsets(p) ==
    {c + bars_count : c \in 0..((Len(p.high) - bars_count * 10) - 1)}

EnvReset ==
    \E inst \in Instruments : \E p \in {EnvPrices(inst)} :
            /\ instrument' = inst
            /\ pre' = [Snapshot EXCEPT !.offset = 0]
            /\ reward' = 0 /\ done' = FALSE /\ again' = FALSE
            /\ UNCHANGED cfg
            /\ IF ResetOffsets(p) = {}
               THEN /\ call' = [op |-> "_reset", action |-> "none",
                                prices |-> p, offset |-> 0]
                    /\ err' = "ValueError"
                    /\ obs' = <<>>
                    /\ UNCHANGED <<episode, doneSeen, trail>>
               ELSE \E o \in ResetOffsets(p) :
                        LET r == reset(p, o)
                        IN  /\ call' = [op |-> "_reset", action |-> "none",
                                        prices |-> p, offset |-> o]
                            /\ have_position' = r.have_position
                            /\ open_price' = r.open_price
                            /\ prices' = r.prices
                            /\ offset' = r.offset
                            /\ bound' = r.bound
                            /\ doneSeen' = (doneSeen /\ r.err # "none")
                            /\ IF r.err = "none"
                               THEN /\ start' = o
                                    /\ nsteps' = 0
                                    /\ overrun' = FALSE
                                    /\ firstReward' = 0
                                    /\ err' = (_encode(offset, have_position,
                                                       open_price).err)'
                                    /\ obs' = (_encode(offset, have_position,
                                                       open_price).res)'
                               ELSE /\ err' = r.err
                                    /\ obs' = <<>>
                                    /\ UNCHANGED trail

\* ---- StocksEnv._step ----
EnvStep ==
    \E idx \in ActionIdxInputs :
        LET a == ActionOf(idx)
        IN  /\ offset < MaxOffset
            /\ call' = [op |-> "_step", action |-> a, prices |-> NoPrices,
                        offset |-> 0]
            /\ pre' = Snapshot
            /\ again' = FALSE
            /\ UNCHANGED <<cfg, instrument, bound, prices, start>>
            /\ IF a \notin Actions
               THEN /\ err' = "ValueError"
                    /\ reward' = 0 /\ done' = FALSE /\ obs' = <<>>
                    /\ UNCHANGED <<offset, have_position, open_price,
                                   doneSeen, nsteps, overrun, firstReward>>
               ELSE IF ~bound
               THEN /\ err' = "AttributeError"
                    /\ reward' = 0 /\ done' = FALSE /\ obs' = <<>>
                    /\ UNCHANGED <<offset, have_position, open_price,
                                   doneSeen, nsteps, overrun, firstReward>>
               ELSE LET out == StepOutcome(Frame, a)
                        ok == out.err = "none"
                    IN  /\ offset' = out.offset
                        /\ have_position' = out.have_position
                        /\ open_price' = out.open_price
                        /\ reward' = IF ok THEN out.reward ELSE 0
                        /\ done' = (ok /\ out.done)
                        /\ doneSeen' = (doneSeen \/ (ok /\ out.done))
                        /\ nsteps' = IF ok THEN nsteps + 1 ELSE nsteps
                        /\ overrun' = (overrun \/ doneSeen)
                        /\ firstReward' = Remembered(nsteps, out)
                        /\ IF ~ok
                           THEN err' = out.err /\ obs' = <<>>
                           ELSE /\ err' = IF (_encode(offset, have_position,
                                                      open_price).err)' # "none"
                                          THEN "IndexError"
                                          ELSE IF instrument = "unset"
                                          THEN "AttributeError"
                                          ELSE "none"
                                /\ obs' = (_encode(offset, have_position,
                                                   open_price).res)'

NextEnv == EnvReset \/ EnvStep \/ Step

SpecEnv == InitEnv /\ [][NextEnv]_vars

\* ======================= properties of State ==========================

StepReturned == call.op = "step" /\ err = "none"

\* C1: a step that returns gives done = true exactly when the offset after
\* the advance is >= length-1, or the action is Close, a position was open
\* and reset_on_close is set.
C1_DoneIff ==
    StepReturned =>
        (done <=> \/ offset >= Len(prices.close) - 1
                  \/ (call.action = "Close" /\ pre.have_position /\ reset_on_close))

\* a Close of an open position ends the episode although bars remain
C1_Witness ==
    /\ StepReturned /\ call.action = "Close" /\ pre.have_position
    /\ done /\ offset < Len(prices.close) - 1

\* C2: Buy while flat opens the position at the absolute close of the bar
\* that was current before the advance and charges one commission on that
\* price; the rest of the step's reward is the accrual of the new bar.
C2_BuyOpens ==
    (StepReturned /\ call.action = "Buy" /\ ~pre.have_position) =>
        /\ have_position
        /\ open_price = At(prices.open, pre.offset)
                        * (Denom + At(prices.close, pre.offset))
        /\ reward = At(prices.open, offset) * At(prices.close, offset) * PercScale
                    - open_price * comission

\* a Buy while flat at a bar whose close differs from its open, with a
\* commission, and a different bar after the advance
C2_Witness ==
    /\ StepReturned /\ call.action = "Buy" /\ ~pre.have_position
    /\ comission > 0
    /\ At(prices.close, pre.offset) # 0
    /\ At(prices.open, pre.offset) # At(prices.open, offset)

\* C3: Close of an open position charges the commission on the absolute
\* close of the bar after the advance, adds the realised P&L exactly when
\* reward_on_close is set, and leaves the state flat; on every other step
\* the reward is the entry commission (if a position was opened) plus the
\* accrual (if a position is held), so no P&L term.
C3_CloseSettles ==
    StepReturned =>
        LET cur == At(prices.open, offset) * (Denom + At(prices.close, offset))
            accrual == At(prices.open, offset) * At(prices.close, offset) * PercScale
        IN  IF call.action = "Close" /\ pre.have_position
            THEN /\ ~have_position
                 /\ open_price = 0
                 /\ reward = (accrual - cur * comission)
                             + (IF reward_on_close
                                THEN (cur - pre.open_price) * PercScale ELSE 0)
            ELSE reward = (IF have_position THEN accrual ELSE 0)
                          - (IF have_position /\ ~pre.have_position
                             THEN open_price * comission ELSE 0)

\* a Close of a position whose price has moved, with a commission
C3_Witness ==
    /\ StepReturned /\ call.action = "Close" /\ pre.have_position
    /\ comission > 0
    /\ ~reward_on_close
    /\ At(prices.open, offset) * (Denom + At(prices.close, offset)) # pre.open_price

\* C4: Buy while holding, and Close while flat, do what Skip would have done
\* from the same state: the same fields afterwards, the same exception or
\* the same (reward, done).
C4_WrongStateIsSkip ==
    LET wrong == \/ (call.action = "Buy" /\ pre.have_position)
                 \/ (call.action = "Close" /\ ~pre.have_position)
        skip == StepOutcome([offset |-> pre.offset,
                             have_position |-> pre.have_position,
                             open_price |-> pre.open_price,
                             reward |-> 0, done |-> FALSE, err |-> "none"],
                            "Skip")
    IN  (call.op = "step" /\ bound /\ wrong) =>
            /\ offset = skip.offset
            /\ have_position = skip.have_position
            /\ open_price = skip.open_price
            /\ have_position = pre.have_position
            /\ open_price = pre.open_price
            /\ err = skip.err
            /\ (err = "none" => reward = skip.reward /\ done = skip.done)

\* a second Buy, with a commission, on a bar other than the one bought at
C4_Witness ==
    /\ StepReturned /\ call.action = "Buy" /\ pre.have_position
    /\ comission > 0
    /\ open_price # At(prices.open, pre.offset)
                    * (Denom + At(prices.close, pre.offset))

\* C5: a step that returns has advanced the offset by exactly one bar.
C5_AdvancesByOne ==
    StepReturned => offset = pre.offset + 1

\* a step taken beyond the last bar, which still advances
C5_Witness ==
    /\ StepReturned /\ done
    /\ pre.offset >= Len(prices.close) - 1
    /\ offset = pre.offset + 1

\* C6 as stated: after done, a further step or encode raises.
C6_UseAfterDoneFails ==
    (call.op \in {"step", "encode"} /\ pre.doneSeen) => err # "none"

\* C6 as amended: after done, step and encode are not guarded.  encode
\* raises only when the offset is beyond the last bar; a step with a valid
\* action raises only when it reads a bar beyond the last one (it opens a
\* position at such an offset, or holds one after the advance to such an
\* offset); every other call returns.
C6_UseAfterDoneUnguarded ==
    LET n == Len(prices.close)
    IN  /\ (call.op = "encode" /\ pre.doneSeen) =>
               /\ err = (IF offset >= n THEN "IndexError" ELSE "none")
               /\ (err = "none" => Len(obs) = 3 * bars_count + 2)
        /\ (call.op = "step" /\ call.action \in Actions /\ pre.doneSeen) =>
               LET opens == call.action = "Buy" /\ ~pre.have_position
                   reads == \/ (opens /\ pre.offset >= n)
                            \/ ((opens \/ pre.have_position) /\ pre.offset + 1 >= n)
               IN  err = (IF reads THEN "IndexError" ELSE "none")

\* a step that returns although done was returned before
C6_Witness ==
    StepReturned /\ pre.doneSeen /\ call.action = "Buy" /\ have_position

\* C7 as stated: reset raises when the offset is below bars_count-1 or not
\* an index of the series.
C7_ResetRejectsBadOffset ==
    (/\ call.op = "reset"
     /\ \/ call.offset < bars_count - 1
        \/ call.offset >= Len(call.prices.close)) => err # "none"

\* C8: a reset that returns leaves the position flat, open_price 0, and
\* binds the given series and offset.
C8_ResetClears ==
    (call.op = "reset" /\ err = "none") =>
        /\ ~have_position
        /\ open_price = 0
        /\ prices = call.prices
        /\ offset = call.offset

\* a reset in the middle of an episode with an open position
C8_Witness ==
    /\ call.op = "reset" /\ err = "none"
    /\ pre.have_position /\ pre.open_price > 0 /\ ~pre.doneSeen

\* C9: encode changes no field of the episode, and an encode directly
\* after an encode that returned returns the same vector.
C9_EncodePure ==
    [][call'.op = "encode" =>
          /\ <<bound, prices, offset, have_position, open_price>>'
                 = <<bound, prices, offset, have_position, open_price>>
          /\ (call.op = "encode" /\ err = "none") => (err' = "none" /\ obs' = obs)]_vars

\* the second of two encodes in a row, with an open position
C9_Witness ==
    again /\ call.op = "encode" /\ err = "none" /\ have_position

\* C10: the vector has 3*bars_count+2 entries: the (high, low, close) of the
\* bars offset-bars_count+1 .. offset, oldest first, then the position flag,
\* then the relative profit.
C10_Layout ==
    (call.op = "encode" /\ err = "none") =>
        /\ Len(obs) = 3 * bars_count + 2
        /\ \A k \in 0..(bars_count - 1) :
               LET i == (offset - bars_count) + 1 + k
               IN  /\ obs[3 * k + 1] = At(prices.high, i)
                   /\ obs[3 * k + 2] = At(prices.low, i)
                   /\ obs[3 * k + 3] = At(prices.close, i)
        /\ obs[3 * bars_count + 1] = (IF have_position THEN Denom ELSE 0)
        /\ obs[3 * bars_count + 2] =
               (IF have_position
                THEN ((At(prices.open, offset) * (Denom + At(prices.close, offset))
                       - open_price) * Denom) \div open_price
                ELSE 0)

\* an observation of two different bars with an open position in profit
C10_Witness ==
    /\ call.op = "encode" /\ err = "none"
    /\ bars_count = 2 /\ have_position
    /\ obs[1] # obs[4]
    /\ obs[3 * bars_count + 2] > 0

\* C11: when no position is open the last entry of the observation is 0,
\* whatever open_price is passed to the encoder and whatever the prices of
\* the window are; the observation of a flat state ends in (0, 0).
C11_FlatProfitZero ==
    /\ (call.op = "encode" /\ err = "none" /\ ~have_position) =>
           /\ obs[3 * bars_count + 1] = 0
           /\ obs[3 * bars_count + 2] = 0
    /\ (bound /\ offset < Len(prices.close)) =>
           \A b \in 1..Len(BarList) :
               \A op \in {0, BarList[b].open * Denom,
                          BarList[b].open * (Denom + BarList[b].close)} :
                   LET r == _encode(offset, FALSE, op)
                   IN  r.err = "none" /\ r.res[3 * bars_count + 2] = 0

\* an observation of a flat state taken at the end of an episode, at a bar
\* whose close has moved
C11_Witness ==
    /\ call.op = "encode" /\ err = "none" /\ ~have_position
    /\ doneSeen
    /\ At(prices.close, offset) # 0

\* C12: on a series without price movement, reset, step(Buy), step(Close)
\* returns rewards that add up to minus the two commissions, one on the
\* price bought at and one on the price sold at, whatever reward_on_close.
C12_RoundTripCost ==
    LET still == \A i \in 1..Len(prices.close) :
                     prices.close[i] = 0 /\ prices.open[i] = prices.open[1]
        bought == At(prices.open, offset - 2) * Denom
        sold == At(prices.open, offset) * Denom
    IN  (/\ StepReturned /\ nsteps = 2 /\ ~overrun
         /\ call.action = "Close" /\ pre.have_position
         /\ still) =>
            firstReward + reward = 0 - (comission * bought + comission * sold)

\* the Close of such a round trip, with a commission
C12_Witness ==
    /\ StepReturned /\ nsteps = 2 /\ ~overrun
    /\ call.action = "Close" /\ pre.have_position
    /\ \A i \in 1..Len(prices.close) : prices.close[i] = 0
    /\ comission > 0 /\ reward_on_close
    /\ firstReward < 0 /\ reward < 0

\* C13: a step with a value that is not one of Skip, Buy, Close raises
\* (AssertionError in State.step, ValueError in StocksEnv._step) and leaves
\* every field of the episode as it was.
C13_InvalidActionRejected ==
    [][(call'.op \in {"step", "_step"} /\ call'.action \notin Actions) =>
          /\ err' = (IF call'.op = "step" THEN "AssertionError" ELSE "ValueError")
          /\ <<bound, prices, offset, have_position, open_price>>'
                 = <<bound, prices, offset, have_position, open_price>>]_vars

\* an invalid action given to State.step in the middle of an episode with an
\* open position
C13_Witness ==
    /\ call.op = "step" /\ call.action \notin Actions
    /\ err = "AssertionError"
    /\ bound /\ have_position /\ nsteps > 0 /\ ~doneSeen

\* C14: the reward of a step holds the accrual open[o+1] * close[o+1] of
\* the new bar exactly once when a position is open after the advance (the
\* step that opens it, every step while holding, and the step that closes
\* it), whatever reward_on_close, and no accrual when the step starts and
\* stays flat; Skip while flat returns 0.
C14_AccrualWhileHeld ==
    StepReturned =>
        LET cur == At(prices.open, offset) * (Denom + At(prices.close, offset))
            opens == call.action = "Buy" /\ ~pre.have_position
            closes == call.action = "Close" /\ pre.have_position
            held == pre.have_position \/ opens
            entry == IF opens THEN open_price * comission ELSE 0
            exit == IF closes THEN cur * comission ELSE 0
            pnl == IF closes /\ reward_on_close
                   THEN (cur - pre.open_price) * PercScale ELSE 0
        IN  /\ ((reward + entry + exit) - pnl)
               = (IF held
                  THEN At(prices.open, offset) * At(prices.close, offset) * PercScale
                  ELSE 0)
            /\ (call.action = "Skip" /\ ~pre.have_position) => reward = 0

\* the step that closes a position, with reward_on_close set, on a bar
\* whose close has moved
C14_Witness ==
    /\ StepReturned /\ call.action = "Close" /\ pre.have_position
    /\ reward_on_close
    /\ At(prices.close, offset) # 0

\* C15 as stated: have_position is false exactly when open_price is 0; an
\* open position has a positive open_price, the absolute close of the bar
\* its Buy was issued at, and the price does not change while it stays open.
C15_OpenPriceTracksPosition ==
    bound =>
        /\ ~have_position <=> open_price = 0
        /\ have_position => open_price > 0
        /\ (call.op = "step" /\ pre.have_position /\ have_position) =>
               open_price = pre.open_price
        /\ (StepReturned /\ call.action = "Buy" /\ ~pre.have_position) =>
               open_price = At(prices.open, pre.offset)
                            * (Denom + At(prices.close, pre.offset))

\* C16: in an episode started at an offset in bars_count-1 .. length-2 and
\* stepped only until done is first returned, no step and no encode (the
\* one after the last step included) reads a bar outside 0 .. length-1.
C16_ReadsInsideSeries ==
    (/\ bound /\ ~overrun
     /\ start >= bars_count - 1 /\ start <= Len(prices.close) - 2
     /\ \/ call.op = "encode"
        \/ (call.op = "step" /\ call.action \in Actions)) =>
        /\ err = "none"
        /\ offset - (bars_count - 1) >= 0
        /\ offset <= Len(prices.close) - 1
        /\ pre.offset >= 0

\* the encode after the step that returned done at the last bar, with a
\* position still open
C16_Witness ==
    /\ bound /\ ~overrun /\ start <= Len(prices.close) - 2
    /\ call.op = "encode" /\ err = "none"
    /\ doneSeen /\ have_position
    /\ offset = Len(prices.close) - 1
    /\ bars_count = 2

\* C17: in an episode started at o0 <= length-2, the steps made until done
\* all return, done is returned by the call number length-1-o0 at the
\* latest, and by exactly that call unless an open position is closed under
\* reset_on_close.
C17_EpisodeEnds ==
    LET last == (Len(prices.close) - 1) - start
    IN  (/\ call.op = "step" /\ call.action \in Actions
         /\ bound /\ ~overrun /\ start <= Len(prices.close) - 2) =>
            /\ err = "none"
            /\ nsteps <= last
            /\ nsteps = last => done
            /\ (done /\ ~(call.action = "Close" /\ pre.have_position
                          /\ reset_on_close)) => nsteps = last

\* an episode of several steps that ends by closing the position at the
\* last bar without reset_on_close
C17_Witness ==
    /\ StepReturned /\ ~overrun /\ start <= Len(prices.close) - 2
    /\ done /\ nsteps >= 3
    /\ nsteps = (Len(prices.close) - 1) - start
    /\ call.action = "Close" /\ pre.have_position /\ ~reset_on_close

\* C18: for a series longer than 10*bars_count, _reset returns, and the
\* offset it gives to State.reset is in bars_count .. length-2: the first
\* window is inside the series and the first step is taken with a bar left.
C18_EnvResetOffset ==
    /\ (call.op = "_reset" /\ Len(call.prices.high) > 10 * bars_count) =>
           /\ err = "none"
           /\ prices = call.prices /\ offset = call.offset /\ start = offset
           /\ offset >= bars_count
           /\ offset <= Len(prices.close) - 2
           /\ Len(obs) = 3 * bars_count + 2
    /\ (call.op \in {"step", "_step"} /\ call.action \in Actions
        /\ bound /\ nsteps <= 1 /\ ~overrun) =>
           /\ err = "none"
           /\ pre.offset = start
           /\ pre.offset <= Len(prices.close) - 2

\* a _reset that drew the largest offset of a series with more than one
\* offset to draw from
C18_Witness ==
    /\ call.op = "_reset" /\ err = "none"
    /\ offset > bars_count
    /\ offset = (Len(prices.high) - 9 * bars_count) - 1
====
